---- MODULE Spec2Model ----
(***************************************************************************)
(* Model of the synchronization engine of spotitube (package main):        *)
(* mainFetch (cache-first source fetching and working-set ingestion),      *)
(* mainSearch (rename repair, provider chain, download, dispatch of the    *)
(* post-processing tasks, final barrier and report) and songProcess (the   *)
(* post-processing task gated by the waitGroupPool channel).               *)
(***************************************************************************)
EXTENDS Naturals, Integers, Sequences, FiniteSets, TLC

\* Number of remote tracks of the modelled account (ids 1..MaxTracks).
MaxTracks == 3
\* Number of providers returned by provider.All(), in priority order.
NumProviders == 2
\* Longest candidate list a provider query returns.
MaxCands == 2
\* Capacity of waitGroupPool; the source sets 100, the model a small pool.
concurrencyLimit == 2
\* cacheDuration, in minutes.
cacheDuration == 30
\* The longest id list handed to a Spotify client list operation.
MaxIds == 51
\* The ids one GetAlbums request carries.
albumsChunk == 20
\* The ids one removal request carries.
removeChunk == 50

VARIABLES
    args,          \* the parsed command line flags (arg* globals)
    pc,            \* position of the coordinating thread (main)
    tracks,        \* working set: track -> SyncOptions
    tracksIndex,   \* dedup keys (temporary filenames) already ingested
    playlists,     \* playlists collected for the export
    disk,          \* files present in the music folder
    index,         \* rename index: Spotify id -> recorded filename
    tracksFailed,  \* failure list
    todo,          \* working-set tracks the range loop has not visited yet
    cur,           \* track of the current loop iteration
    prov,          \* provider the search of the current iteration is at
    entry,         \* candidate chosen so far by the search of the current iteration
    task,          \* state of the songProcess goroutine of each track
    waitGroup,     \* counter of the sync.WaitGroup
    pool,          \* permits buffered in waitGroupPool
    poolClosed,    \* waitGroupPool has been closed
    usrIndex,      \* content of the rename index file (index.gob)
    stagingFailed, \* tracks whose songProcess returned at the staging failure
    client,        \* the last call of a Spotify client list operation
    ev             \* what the last coordinator step did (calls made, inputs read)

vars == <<args, pc, tracks, tracksIndex, playlists, disk, index, tracksFailed, todo,
          cur, prov, entry, task, waitGroup, pool, poolClosed, usrIndex, stagingFailed,
          client, ev>>

-----------------------------------------------------------------------------
\* Tracks, files, options

TrackIds == 1..MaxTracks

\* A track object: the remote id, the name its filenames derive from, and the
\* allocation it comes from: the source, and whether it was decoded from the
\* source's cached dump, built from a live fetch or opened from a local file
\* (two fetches of one remote track are two objects).
Track(k, n, s, v) == [id |-> k, name |-> n, from |-> s, via |-> v]

\* Track.Filename(): "<basename>.mp3"; name 0 is a name no remote track has now.
Filename(t) == <<"", t.name, ".mp3">>

\* Track.FilenameTemporary(): ".<basename>.mp3"
FilenameTemporary(t) == <<".", t.name, ".mp3">>

FinalFiles == {<<"", n, ".mp3">> : n \in 0..MaxTracks}
TempFiles == {<<".", n, ".mp3">> : n \in 0..MaxTracks}

\* Track.Local(): the track's file is in the folder.
Local(t) == Filename(t) \in disk

SyncOptionsDefault == [Source |-> FALSE, Metadata |-> FALSE, Normalization |-> FALSE]

SyncOptionsFlush == [Source |-> TRUE, Metadata |-> TRUE, Normalization |-> TRUE]

\* TracksIndex.Match(id, filename): (recorded path, matches, err)
Match(idx, id, fname) ==
    IF id \in DOMAIN idx
    THEN [path |-> idx[id], match |-> idx[id] = fname, err |-> FALSE]
    ELSE [path |-> <<>>, match |-> FALSE, err |-> TRUE]

\* TracksIndex.Rename(id, filename)
Rename(idx, id, fname) ==
    [k \in DOMAIN idx \cup {id} |-> IF k = id THEN fname ELSE idx[k]]

RECURSIVE Iota(_)
Iota(n) == IF n = 0 THEN <<>> ELSE Append(Iota(n - 1), n)

\* What the remote account holds: the ordered track ids of each source.
RemoteTracks(s) ==
    CASE s = "library" -> Iota(MaxTracks)
      [] s = "album" -> <<MaxTracks>>
      [] s = "playlist" -> IF MaxTracks >= 2 THEN <<2, 1>> ELSE <<1>>
      [] OTHER -> <<>>

-----------------------------------------------------------------------------
\* Ingestion (the working set is the pair tracks, tracksIndex)

WS == [tracks |-> tracks, tracksIndex |-> tracksIndex]

\* Fault: no duplicate test.
tracksInflateWithOptionNoDup(ws, t, opts) ==
    [tracks |-> [x \in DOMAIN ws.tracks \cup {t} |-> IF x = t THEN opts ELSE ws.tracks[x]],
     tracksIndex |-> ws.tracksIndex \cup {FilenameTemporary(t)}]

\* tracksInflateWithOption
tracksInflateWithOption(ws, t, opts) ==
    IF FilenameTemporary(t) \in ws.tracksIndex
    THEN ws
    ELSE [tracks |-> [x \in DOMAIN ws.tracks \cup {t} |->
                         IF x = t THEN opts ELSE ws.tracks[x]],
          tracksIndex |-> ws.tracksIndex \cup {FilenameTemporary(t)}]

\* Fault: the options of a local and of an absent track are swapped.
tracksInflateSwapped(ws, t) ==
    tracksInflateWithOption(ws, t, IF Local(t) THEN SyncOptionsFlush ELSE SyncOptionsDefault)

\* tracksInflate
tracksInflate(ws, t) ==
    tracksInflateWithOption(ws, t, IF Local(t) THEN SyncOptionsDefault ELSE SyncOptionsFlush)

\* for _, t := range list { tracksInflate(t) }
RECURSIVE InflateAll(_, _, _, _)
InflateAll(ws, ids, s, v) ==
    IF ids = <<>> THEN ws
    ELSE InflateAll(tracksInflate(ws, Track(Head(ids), Head(ids), s, v)), Tail(ids), s, v)

-----------------------------------------------------------------------------
\* Cache-first fetch of one source

Missing == [state |-> "missing", age |-> 0]
Corrupt == [state |-> "corrupt", age |-> 0]
Dump(a) == [state |-> "ok", age |-> a]
CacheAges == {cacheDuration - 1, cacheDuration, cacheDuration + 1}
DumpStates == {Missing, Corrupt} \cup {Dump(a) : a \in CacheAges}

\* fetchDump: FetchGob fails on a missing or unreadable file; a dump older than
\* cacheDuration is reported obsolete.
fetchDump(d) == [err |-> d.state # "ok" \/ d.age > cacheDuration, age |-> d.age]

\* Fault: the caller trusts fetchDump and does not look at the age again.
CacheUsableNoAge(r, a2) == ~r.err

\* The caller's test, dumpErr == nil && time.Since(dump.Time) < cacheDuration;
\* its clock read comes after fetchDump's and sees the age a2.
CacheUsable(r, a2) == ~r.err /\ a2 < cacheDuration

\* An entry is a provider's candidate: the provider, the rank in its answer,
\* and whether its URL is the origin URL recorded in the local file (track.URL).
NoEntry == [prov |-> 0, rank |-> 0, same |-> FALSE]

NoEv == [op |-> "none", src |-> "", track |-> <<>>,
         dump |-> Missing, age2 |-> 0, cached |-> FALSE, live |-> FALSE,
         liveOk |-> FALSE, source0 |-> FALSE, stages |-> <<>>, stageErr |-> {},
         path |-> <<>>, matchErr |-> FALSE, match |-> FALSE, renameTried |-> FALSE,
         renameOk |-> FALSE, searched |-> FALSE, found |-> <<>>, same |-> <<>>,
         sameURL |-> FALSE,
         entry |-> NoEntry, download |-> FALSE, downloadOk |-> FALSE,
         dispatched |-> FALSE, writes |-> {}, loaded |-> <<>>]

\* The body shared by mainFetchLibrary and by an iteration of mainFetchAlbums and
\* of mainFetchPlaylists, for the gob file content d found on disk.
FetchSource(s, next) ==
    \* if argFlushCache { os.Remove(gob) }
    \E d \in (IF args.argFlushCache THEN {Missing} ELSE DumpStates) :
    \E drift \in (IF d.state = "ok" THEN {0, 1} ELSE {0}), liveOk \in BOOLEAN :
        LET r == fetchDump(d)
            age2 == d.age + drift
            use == CacheUsable(r, age2)
            ws == InflateAll(WS, RemoteTracks(s), s, IF use THEN "dump" ELSE "live")
        IN  /\ ev' = [NoEv EXCEPT !.op = "fetch", !.src = s, !.dump = d, !.age2 = age2,
                                  !.cached = use, !.live = ~use, !.liveOk = ~use /\ liveOk]
            /\ IF use \/ liveOk
               THEN /\ tracks' = ws.tracks
                    /\ tracksIndex' = ws.tracksIndex
                    /\ playlists' = IF s = "playlist" THEN Append(playlists, s)
                                    ELSE playlists
                    /\ pc' = next
               ELSE \* ui.Prompt("Unable to fetch ...", cui.PromptExit)
                    /\ pc' = "exit"
                    /\ UNCHANGED <<tracks, tracksIndex, playlists>>

Skip(next) == pc' = next /\ ev' = NoEv /\ UNCHANGED <<tracks, tracksIndex, playlists>>

mainFetchLibrary ==
    /\ pc = "fetchLibrary"
    /\ IF args.argLibrary THEN FetchSource("library", "fetchAlbums") ELSE Skip("fetchAlbums")
    /\ UNCHANGED <<args, disk, index, tracksFailed, todo, cur, prov, entry, task, waitGroup,
                   pool, poolClosed, usrIndex, stagingFailed, client>>

mainFetchAlbums ==
    /\ pc = "fetchAlbums"
    /\ IF args.argAlbums THEN FetchSource("album", "fetchPlaylists")
       ELSE Skip("fetchPlaylists")
    /\ UNCHANGED <<args, disk, index, tracksFailed, todo, cur, prov, entry, task, waitGroup,
                   pool, poolClosed, usrIndex, stagingFailed, client>>

mainFetchPlaylists ==
    /\ pc = "fetchPlaylists"
    /\ IF args.argPlaylists THEN FetchSource("playlist", "fetchFix") ELSE Skip("fetchFix")
    /\ UNCHANGED <<args, disk, index, tracksFailed, todo, cur, prov, entry, task, waitGroup,
                   pool, poolClosed, usrIndex, stagingFailed, client>>

\* mainFetchTracksToFix: track.OpenLocalTrack fails on a file that is not there.
RECURSIVE FixAll(_, _)
FixAll(ws, names) ==
    IF names = <<>> THEN ws
    ELSE LET t == Track(Head(names), Head(names), "fix", "file")
         IN  FixAll(IF Local(t) THEN tracksInflateWithOption(ws, t, SyncOptionsFlush) ELSE ws,
                    Tail(names))

mainFetchTracksToFix ==
    /\ pc = "fetchFix"
    /\ LET ws == FixAll(WS, args.argTracksFix)
       IN  /\ tracks' = ws.tracks
           /\ tracksIndex' = ws.tracksIndex
    /\ ev' = [NoEv EXCEPT !.op = "fix"]
    /\ pc' = "override"
    /\ UNCHANGED <<args, playlists, disk, index, tracksFailed, todo, cur, prov, entry, task,
                   waitGroup, pool, poolClosed, usrIndex, stagingFailed, client>>

\* Fault: the pass sets Source under either flag.
OverrideSourceToo(ts) ==
    IF args.argFlushLocal \/ args.argFlushMetadata
    THEN [t \in DOMAIN ts |-> [ts[t] EXCEPT !.Metadata = TRUE, !.Source = TRUE]]
    ELSE ts

\* The tail of mainFetch: the override pass and the exit on an empty working set.
Override(ts) ==
    IF args.argFlushLocal \/ args.argFlushMetadata
    THEN [t \in DOMAIN ts |-> [ts[t] EXCEPT !.Metadata = TRUE,
                                           !.Source = IF args.argFlushLocal THEN TRUE ELSE @]]
    ELSE ts

mainFetch ==
    /\ pc = "override"
    /\ tracks' = Override(tracks)
    /\ ev' = [NoEv EXCEPT !.op = "override"]
    /\ IF DOMAIN tracks = {}
       THEN pc' = "exit" /\ UNCHANGED <<todo, task>>
       ELSE /\ pc' = "loop"
            /\ todo' = DOMAIN tracks
            /\ task' = [t \in DOMAIN tracks |-> "none"]
    /\ UNCHANGED <<args, tracksIndex, playlists, disk, index, tracksFailed, cur, prov,
                   entry, waitGroup, pool, poolClosed, usrIndex, stagingFailed, client>>

-----------------------------------------------------------------------------
\* mainSearch: one iteration of the range loop over the working set

Empty(e) == e = NoEntry

\* The verdicts entryPick (Match, or the interactive prompt's answer) the loop
\* reads from a provider's ranked candidates: rejections, closed by the first
\* acceptance or by the end of the list.
Picks ==
    {[i \in 1..n |-> FALSE] : n \in 0..MaxCands} \cup {[i \in 1..n |-> i = n] : n \in 1..MaxCands}

\* A provider's answer to Query: an error, or candidates.
ProvOutcomes ==
    {[err |-> TRUE, picks |-> <<>>]} \cup {[err |-> FALSE, picks |-> s] : s \in Picks}

\* for _, provEntry := range provEntries { ...; if entryPick { break } }
FirstAccepted(picks) ==
    IF \E i \in 1..Len(picks) : picks[i]
    THEN CHOOSE i \in 1..Len(picks) : picks[i] /\ \A j \in 1..(i - 1) : ~picks[j]
    ELSE 0

\* What the loop learns from a provider: -1 error, 0 no candidate accepted,
\* r > 0 the rank of the first accepted candidate.
Found(o) == IF o.err THEN 0 - 1 ELSE FirstAccepted(o.picks)

\* The body of "for _, p := range provider.All()" for provider p, on the pair
\* acc = (entry, whether the track is appended to tracksFailed).
ProviderStep(acc, p, o, man, same) ==
    IF ~args.argInput /\ o.err
    THEN acc
    ELSE LET e1 == IF ~args.argInput /\ FirstAccepted(o.picks) > 0
                   THEN [prov |-> p, rank |-> FirstAccepted(o.picks), same |-> same]
                   ELSE acc.entry
             e2 == IF args.argInput /\ Empty(e1) /\ man = "ok"
                   THEN [prov |-> p, rank |-> 0, same |-> same]
                   ELSE e1
         IN  [entry |-> e2, failed |-> Empty(e2)]

NoTrack == [id |-> 0, name |-> 0, from |-> "", via |-> ""]

\* The record of the current iteration, lost when another thread stepped.
IterEv == IF ev.track = cur THEN ev ELSE NoEv

\* Fault: the index is updated whether or not os.Rename succeeded.
RepairIndexAlways(idx, id, fname, renameOk) == Rename(idx, id, fname)

\* index.Rename(...) once os.Rename has succeeded
RepairIndex(idx, id, fname, renameOk) ==
    IF renameOk THEN Rename(idx, id, fname) ELSE idx

\* Fault: the options are left as they were after a rename.
RepairOptsKeep(opts, renameOk) == opts

\* if !argFlushLocal { trackOpts.Source = false }, once os.Rename has succeeded
RepairOpts(opts, renameOk) ==
    IF renameOk /\ ~args.argFlushLocal THEN [opts EXCEPT !.Source = FALSE] ELSE opts

\* if !track.Local() || trackOpts.Source || argSimulate
NeedsSearch(local, opts) == ~local \/ opts.Source \/ args.argSimulate

\* Fault: no track is skipped.
SkipProcessingNever(local, opts) == FALSE

\* if track.Local() && !trackOpts.Metadata { continue }
SkipProcessing(local, opts) == local /\ ~opts.Metadata

\* The head of an iteration: the rename repair and the test that opens the search.
IterBegin(t) ==
    /\ pc = "loop"
    /\ t \in todo
    /\ LET m == Match(index, t.id, Filename(t))
           tryRename == ~m.err /\ ~m.match
       IN  \E renameOk \in (IF tryRename /\ m.path \in disk THEN BOOLEAN ELSE {FALSE}) :
           LET disk1 == IF renameOk THEN (disk \ {m.path}) \cup {Filename(t)} ELSE disk
               opts1 == RepairOpts(tracks[t], renameOk)
               doSearch == NeedsSearch(Filename(t) \in disk1, opts1)
           IN  /\ disk' = disk1
               /\ index' = RepairIndex(index, t.id, Filename(t), renameOk)
               /\ tracks' = [tracks EXCEPT ![t] = opts1]
               /\ pc' = IF doSearch THEN "search" ELSE "process"
               /\ ev' = [NoEv EXCEPT !.op = "begin", !.track = t, !.path = m.path,
                                     !.matchErr = m.err, !.match = m.match,
                                     !.renameTried = tryRename, !.renameOk = renameOk,
                                     !.source0 = tracks[t].Source, !.searched = doSearch,
                                     !.writes = IF renameOk /\ ~args.argFlushLocal
                                                THEN {<<"Source", t>>} ELSE {}]
    /\ cur' = t
    /\ todo' = todo \ {t}
    /\ prov' = 1
    /\ entry' = NoEntry
    /\ UNCHANGED <<args, tracksIndex, playlists, tracksFailed, task, waitGroup, pool,
                   poolClosed, usrIndex, stagingFailed, client>>

\* One iteration of "for _, p := range provider.All()". The answer to the
\* manual URL prompt (argInput) is nothing typed, a URL the provider supports,
\* or a URL it does not.
Query ==
    /\ pc = "search"
    /\ \E o \in (IF args.argInput THEN {[err |-> FALSE, picks |-> <<>>]} ELSE ProvOutcomes),
          man \in (IF args.argInput THEN {"none", "ok", "bad"} ELSE {"none"}) :
       \* the URL of the candidate taken is track.URL or not; a track without a
       \* local file has no origin URL
       \E same \in (IF Local(cur) /\ (IF args.argInput THEN Empty(entry) /\ man = "ok"
                                         ELSE FirstAccepted(o.picks) > 0)
                    THEN BOOLEAN ELSE {FALSE}) :
           LET r == ProviderStep([entry |-> entry, failed |-> FALSE], prov, o, man, same)
           IN  /\ entry' = r.entry
               /\ tracksFailed' = IF r.failed THEN Append(tracksFailed, cur) ELSE tracksFailed
               /\ ev' = [IterEv EXCEPT !.op = "query", !.track = cur,
                                       !.found = [p \in DOMAIN @ \cup {prov} |->
                                                     IF p = prov THEN Found(o) ELSE @[p]],
                                       !.same = [p \in DOMAIN @ \cup {prov} |->
                                                    IF p = prov THEN same ELSE @[p]],
                                       !.entry = r.entry]
    /\ prov' = prov + 1
    /\ pc' = IF prov = NumProviders THEN "download" ELSE "search"
    /\ UNCHANGED <<args, tracks, tracksIndex, playlists, disk, index, todo, cur, task,
                   waitGroup, pool, poolClosed, usrIndex, stagingFailed, client>>

\* After the providers: the download of the chosen entry.
Download ==
    /\ pc = "download"
    /\ LET same == entry.same
           \* if entry.Empty() || track.URL == entry.URL { continue }
           stop == Empty(entry) \/ same
       IN  \E forOk \in (IF stop THEN {FALSE} ELSE BOOLEAN) :
               \E dlOk \in (IF forOk THEN BOOLEAN ELSE {FALSE}) :
                   /\ disk' = IF dlOk THEN disk \cup {FilenameTemporary(cur)} ELSE disk
                   /\ tracksFailed' = IF forOk /\ ~dlOk THEN Append(tracksFailed, cur)
                                      ELSE tracksFailed
                   /\ pc' = IF dlOk THEN "process" ELSE "loop"
                   /\ cur' = IF dlOk THEN cur ELSE NoTrack
                   /\ ev' = [NoEv EXCEPT !.op = "download", !.track = cur,
                                           !.entry = entry, !.sameURL = same,
                                           !.download = forOk, !.downloadOk = dlOk,
                                           !.writes = IF dlOk THEN {<<"URL", cur>>}
                                                      ELSE {}]
    /\ UNCHANGED <<args, tracks, tracksIndex, playlists, index, todo, prov, entry, task,
                   waitGroup, pool, poolClosed, usrIndex, stagingFailed, client>>

\* The tail of an iteration: lyrics, artwork and the launch of songProcess,
\* unless the track is local and needs no metadata flush.
\* What songFetchLyrics and songFetchArtwork may assign: the track's Lyrics
\* and Artwork fields and an entry of the artworks cache.
FetchWrites(t) == {<<"Lyrics", t>>, <<"Artwork", t>>, <<"artworks", NoTrack>>}

\* Fault: the loop goes on to the next track in debug mode too.
AfterDispatchNoWait(go, debug) == "loop"

\* Where the loop goes after the dispatch: "if argDebug { waitGroup.Wait() }"
\* is inside the branch that started the goroutine.
AfterDispatch(go, debug) == IF go /\ debug THEN "debugWait" ELSE "loop"

Dispatch ==
    /\ pc = "process"
    /\ LET go == ~SkipProcessing(Local(cur), tracks[cur])
       IN  /\ task' = IF go THEN [task EXCEPT ![cur] = "queued"] ELSE task
           /\ waitGroup' = IF go THEN waitGroup + 1 ELSE waitGroup
           /\ pc' = AfterDispatch(go, args.argDebug)
           /\ ev' = [NoEv EXCEPT !.op = "dispatch", !.track = cur, !.dispatched = go,
                                   !.writes = IF go THEN FetchWrites(cur) ELSE {}]
    /\ cur' = NoTrack
    /\ UNCHANGED <<args, tracks, tracksIndex, playlists, disk, index, tracksFailed, todo,
                   prov, entry, pool, poolClosed, usrIndex, stagingFailed, client>>

\* Fault: Wait returns while tasks are outstanding.
WaitDoneEarly == TRUE

\* waitGroup.Wait() returns
WaitDone == waitGroup = 0

\* if argDebug { waitGroup.Wait() }
DebugWait ==
    /\ pc = "debugWait"
    /\ WaitDone
    /\ pc' = "loop"
    /\ UNCHANGED <<args, tracks, tracksIndex, playlists, disk, index, tracksFailed, todo,
                   cur, prov, entry, task, waitGroup, pool, poolClosed, usrIndex,
                   stagingFailed, client, ev>>

\* The loop is over: waitGroup.Wait()
Barrier ==
    /\ pc = "loop"
    /\ todo = {}
    /\ WaitDone
    /\ pc' = "export"
    /\ ev' = [NoEv EXCEPT !.op = "wait"]
    /\ UNCHANGED <<args, tracks, tracksIndex, playlists, disk, index, tracksFailed, todo,
                   cur, prov, entry, task, waitGroup, pool, poolClosed, usrIndex,
                   stagingFailed, client>>

\* flushPlaylists(); the playlist files are not files of the model's folder.
flushPlaylists ==
    /\ pc = "export"
    /\ pc' = "sync"
    /\ ev' = [NoEv EXCEPT !.op = "export"]
    /\ UNCHANGED <<args, tracks, tracksIndex, playlists, disk, index, tracksFailed, todo,
                   cur, prov, entry, task, waitGroup, pool, poolClosed, usrIndex,
                   stagingFailed, client>>

\* The index file: absent, unreadable, or holding the index last written.
NoIndexFile == [state |-> "missing", idx |-> <<>>]
BadIndexFile == [state |-> "corrupt", idx |-> <<>>]
IndexFile(idx) == [state |-> "ok", idx |-> idx]

\* index.Sync(usrIndex)
indexSync ==
    /\ pc = "sync"
    /\ pc' = "close"
    /\ usrIndex' = IndexFile(index)
    /\ ev' = [NoEv EXCEPT !.op = "sync"]
    /\ UNCHANGED <<args, tracks, tracksIndex, playlists, disk, index, tracksFailed, todo,
                   cur, prov, entry, task, waitGroup, pool, poolClosed, stagingFailed,
                   client>>

\* close(waitGroupPool); waitGroup.Wait()
ClosePool ==
    /\ pc = "close"
    /\ WaitDone
    /\ poolClosed' = TRUE
    /\ pc' = "report"
    /\ ev' = [NoEv EXCEPT !.op = "close"]
    /\ UNCHANGED <<args, tracks, tracksIndex, playlists, disk, index, tracksFailed, todo,
                   cur, prov, entry, task, waitGroup, pool, usrIndex, stagingFailed,
                   client>>

\* The failure report, the notification and the closing prompt.
Report ==
    /\ pc = "report"
    /\ pc' = "done"
    /\ ev' = [NoEv EXCEPT !.op = "report"]
    /\ UNCHANGED <<args, tracks, tracksIndex, playlists, disk, index, tracksFailed, todo,
                   cur, prov, entry, task, waitGroup, pool, poolClosed, usrIndex,
                   stagingFailed, client>>

\* os.Exit: the process and its goroutines are gone, and its memory with them;
\* what remains is the folder.
Exited ==
    /\ pc' = "exit"
    /\ tracks' = <<>>
    /\ tracksIndex' = {}
    /\ playlists' = <<>>
    /\ index' = <<>>
    /\ tracksFailed' = <<>>
    /\ todo' = {}
    /\ cur' = NoTrack
    /\ prov' = 1
    /\ entry' = NoEntry
    /\ task' = <<>>
    /\ waitGroup' = 0
    /\ pool' = 0
    /\ poolClosed' = FALSE
    /\ stagingFailed' = {}

\* The interrupt handler installed by mainInit: mainExit removes the junk
\* (temporary) files and exits; goroutines in flight are abandoned.
Interrupt ==
    /\ pc \notin {"done", "exit"}
    /\ Exited
    /\ disk' = disk \ TempFiles
    /\ ev' = [NoEv EXCEPT !.op = "interrupt"]
    /\ UNCHANGED <<args, usrIndex, client>>

-----------------------------------------------------------------------------
\* songProcess

Alive == pc # "exit"

\* Fault: the receive never blocks.
CanReceiveUnguarded == TRUE

\* <-waitGroupPool returns: a permit is buffered (a receive on a closed
\* channel does not block either)
CanReceive == pool > 0 \/ poolClosed

\* <-waitGroupPool
Acquire(t) ==
    /\ Alive
    /\ task[t] = "queued"
    /\ CanReceive
    /\ pool' = IF pool > 0 THEN pool - 1 ELSE pool
    /\ task' = [task EXCEPT ![t] = "active"]
    /\ ev' = [NoEv EXCEPT !.op = "task"]
    /\ UNCHANGED <<args, pc, tracks, tracksIndex, playlists, disk, index, tracksFailed,
                   todo, cur, prov, entry, waitGroup, poolClosed, usrIndex, stagingFailed,
                   client>>

\* The outcomes of system.FileCopy: done, failed before the destination was
\* created, or failed in io.Copy with a partial destination left behind.
CopyOutcomes(d, t) == IF Filename(t) \in d THEN {"ok", "fail", "partial"} ELSE {"fail"}

\* Staging: if !system.FileExists(tmp) { system.FileCopy(final, tmp) }
Staging(d, t, copy) ==
    IF FilenameTemporary(t) \in d THEN [ok |-> TRUE, disk |-> d]
    ELSE [ok |-> copy = "ok",
          disk |-> IF copy = "fail" THEN d ELSE d \cup {FilenameTemporary(t)}]

\* Fault: an error of songNormalize or of songMetadataFlush ends the task.
songStagesFatal(opts, normErr, flushErr) ==
    IF opts.Normalization /\ normErr THEN <<"normalize">>
    ELSE (IF opts.Normalization THEN <<"normalize">> ELSE <<>>)
            \o (IF opts.Metadata THEN <<"flush">> ELSE <<>>)
            \o (IF opts.Metadata /\ flushErr THEN <<>> ELSE <<"finalize">>)

\* The stages songProcess calls once the staging is done; songNormalize
\* measures the volume only if opts.Normalization, songMetadataFlush flushes
\* only if opts.Metadata, and their errors are only reported.
songStages(opts, normErr, flushErr) ==
    (IF opts.Normalization THEN <<"normalize">> ELSE <<>>)
        \o (IF opts.Metadata THEN <<"flush">> ELSE <<>>)
        \o <<"finalize">>

\* os.Remove(final); os.Rename(tmp, final)
Finalize(d, t, removed, moved) ==
    IF moved THEN (d \ {FilenameTemporary(t)}) \cup {Filename(t)}
    ELSE IF removed THEN d \ {Filename(t)} ELSE d

\* Fault: the task records its own failure in the shared list.
songProcessFailedAppend(list, t) == Append(list, t)

\* The failure list after the staging-failure return: songProcess appends the
\* error text to the UI and assigns no shared variable.
songProcessFailed(list, t) == list

\* The body: staging, normalization, metadata flush, move to the final path.
Process(t) ==
    /\ Alive
    /\ task[t] = "active"
    /\ \E copy \in (IF FilenameTemporary(t) \in disk THEN {"ok"} ELSE CopyOutcomes(disk, t)) :
           LET st == Staging(disk, t, copy)
           IN  IF ~st.ok
               THEN \* ui.Append(err.Error(), cui.ErrorAppend); return
                    /\ task' = [task EXCEPT ![t] = "failed"]
                    /\ stagingFailed' = stagingFailed \cup {t}
                    /\ tracksFailed' = songProcessFailed(tracksFailed, t)
                    /\ disk' = st.disk
                    /\ ev' = [NoEv EXCEPT !.op = "process", !.track = t,
                                          !.stages = <<"staging">>, !.stageErr = {"staging"}]
               ELSE \E normErr \in (IF tracks[t].Normalization THEN BOOLEAN ELSE {FALSE}),
                       flushErr \in (IF tracks[t].Metadata THEN BOOLEAN ELSE {FALSE}),
                       moved \in BOOLEAN :
                    \E removed \in (IF moved \/ Filename(t) \notin disk THEN {TRUE}
                                     ELSE BOOLEAN) :
                    LET stages == songStages(tracks[t], normErr, flushErr)
                        final == \E i \in DOMAIN stages : stages[i] = "finalize"
                    IN
                    /\ task' = [task EXCEPT ![t] = "processed"]
                    /\ stagingFailed' = stagingFailed
                    /\ tracksFailed' = tracksFailed
                    /\ disk' = IF final THEN Finalize(st.disk, t, removed, moved)
                               ELSE st.disk
                    /\ ev' = [NoEv EXCEPT
                                 !.op = "process", !.track = t,
                                 !.stages = <<"staging">> \o stages,
                                 !.stageErr = (IF normErr THEN {"normalize"} ELSE {})
                                                \cup (IF flushErr THEN {"flush"} ELSE {})
                                                \cup (IF moved THEN {} ELSE {"finalize"})]
    /\ UNCHANGED <<args, pc, tracks, tracksIndex, playlists, index, todo, cur, prov, entry,
                   waitGroup, pool, poolClosed, usrIndex, client>>

\* Fault: the permit is given back at the end of the body only, so the
\* staging-failure return leaves without it.
ReleaseNotDeferred(t) ==
    /\ Alive
    /\ task[t] \in {"processed", "failed"}
    /\ pool < concurrencyLimit
    /\ ~poolClosed
    /\ pool' = IF task[t] = "failed" THEN pool ELSE pool + 1
    /\ task' = [task EXCEPT ![t] = "released"]
    /\ ev' = [NoEv EXCEPT !.op = "task"]
    /\ UNCHANGED <<args, pc, tracks, tracksIndex, playlists, disk, index, tracksFailed,
                   todo, cur, prov, entry, waitGroup, poolClosed, usrIndex, stagingFailed,
                   client>>

\* Fault: wg.Done() is called at the end of the body and not deferred, so the
\* staging-failure return ends the task without it.
ReleaseDoneNotDeferred(t) ==
    /\ Alive
    /\ task[t] \in {"processed", "failed"}
    /\ pool < concurrencyLimit
    /\ ~poolClosed
    /\ pool' = pool + 1
    /\ task' = [task EXCEPT ![t] = IF task[t] = "failed" THEN "done" ELSE "released"]
    /\ ev' = [NoEv EXCEPT !.op = "task"]
    /\ UNCHANGED <<args, pc, tracks, tracksIndex, playlists, disk, index, tracksFailed,
                   todo, cur, prov, entry, waitGroup, poolClosed, usrIndex, stagingFailed,
                   client>>

\* The deferred waitGroupPool <- true
Release(t) ==
    /\ Alive
    /\ task[t] \in {"processed", "failed"}
    /\ pool < concurrencyLimit
    /\ ~poolClosed
    /\ pool' = pool + 1
    /\ task' = [task EXCEPT ![t] = "released"]
    /\ ev' = [NoEv EXCEPT !.op = "task"]
    /\ UNCHANGED <<args, pc, tracks, tracksIndex, playlists, disk, index, tracksFailed,
                   todo, cur, prov, entry, waitGroup, poolClosed, usrIndex, stagingFailed,
                   client>>

\* The deferred wg.Done()
Done(t) ==
    /\ Alive
    /\ task[t] = "released"
    /\ waitGroup' = waitGroup - 1
    /\ task' = [task EXCEPT ![t] = "done"]
    /\ ev' = [NoEv EXCEPT !.op = "task"]
    /\ UNCHANGED <<args, pc, tracks, tracksIndex, playlists, disk, index, tracksFailed,
                   todo, cur, prov, entry, pool, poolClosed, usrIndex, stagingFailed,
                   client>>

-----------------------------------------------------------------------------
\* The Spotify client (package spotify): list operations cut into requests

\* No call made yet; otherwise what was handed to the call and to the API
\* (failing requests, failing single fetches), and what came of it.
NoCall == [op |-> "none", ids |-> <<>>, reqErr |-> {}, idErr |-> {},
           albums |-> <<>>, requests |-> <<>>, err |-> FALSE]

\* ids[lowerbound:upperbound]
Slice(ids, lowerbound, upperbound) == SubSeq(ids, lowerbound + 1, upperbound)

\* The empty spotify.FullAlbum{} placeholder
NoAlbum == 0

\* The fallback of a failed batch: GetAlbum on each id, the album or the
\* placeholder.
AlbumsSingly(chunk, idErr) ==
    [i \in DOMAIN chunk |-> IF chunk[i] \in idErr THEN NoAlbum ELSE chunk[i]]

\* The loop of Client.Albums from iteration it on, albums being what has been
\* appended so far. GetAlbums returns the albums of the ids, or an error and
\* no album; on an error the single fetches fill a chunk variable declared
\* inside the if block, which shadows the one the loop appends and tests.
RECURSIVE AlbumsLoop(_, _, _, _, _)
AlbumsLoop(ids, reqErr, idErr, it, albums) ==
    LET lowerbound == it * albumsChunk
        upperbound == IF lowerbound + albumsChunk >= Len(ids)
                      THEN lowerbound + (Len(ids) - lowerbound)
                      ELSE lowerbound + albumsChunk
        err == it \in reqErr
        chunk == IF err THEN <<>> ELSE Slice(ids, lowerbound, upperbound)
        inner == AlbumsSingly(Slice(ids, lowerbound, upperbound), idErr)
        appended == albums \o chunk
    IN  IF Len(chunk) < albumsChunk
        THEN appended
        ELSE AlbumsLoop(ids, reqErr, idErr, it + 1, appended)

\* Client.Albums(ids)
Albums(ids, reqErr, idErr) == AlbumsLoop(ids, reqErr, idErr, 0, <<>>)

\* The loop of Client.RemoveLibraryTracks and Client.RemovePlaylistTracks from
\* iteration it on: the requests issued and whether an error is returned.
RECURSIVE RemoveLoop(_, _, _, _)
RemoveLoop(ids, reqErr, it, requests) ==
    LET lowerbound == it * removeChunk
        upperbound == IF Len(ids) < lowerbound + removeChunk
                      THEN lowerbound + (Len(ids) - lowerbound)
                      ELSE lowerbound + removeChunk
        chunk == Slice(ids, lowerbound, upperbound)
        issued == Append(requests, chunk)
    IN  IF it \in reqErr THEN [requests |-> issued, err |-> TRUE]
        ELSE IF Len(chunk) < removeChunk THEN [requests |-> issued, err |-> FALSE]
        ELSE RemoveLoop(ids, reqErr, it + 1, issued)

\* if len(ids) == 0 { return nil }, then the loop
RemoveTracks(ids, reqErr) ==
    IF Len(ids) = 0 THEN [requests |-> <<>>, err |-> FALSE]
    ELSE RemoveLoop(ids, reqErr, 0, <<>>)

\* The inputs of a call: a list of distinct ids, the requests the API fails
\* and the ids whose single fetch fails.
IdLists == {Iota(n) : n \in 0..MaxIds}
Iterations == 0..(MaxIds \div albumsChunk)
FailingIds == {1, albumsChunk + 1}

ClientFrame ==
    UNCHANGED <<args, pc, tracks, tracksIndex, playlists, disk, index, tracksFailed, todo,
                cur, prov, entry, task, waitGroup, pool, poolClosed, usrIndex,
                stagingFailed, ev>>

CallAlbums ==
    /\ client.op = "none"
    /\ client' = [client EXCEPT !.op = "Albums",
                                !.albums = Albums(client.ids, client.reqErr, client.idErr)]
    /\ ClientFrame

CallRemoveLibraryTracks ==
    /\ client.op = "none"
    /\ LET r == RemoveTracks(client.ids, client.reqErr)
       IN  client' = [client EXCEPT !.op = "RemoveLibraryTracks",
                                    !.requests = r.requests, !.err = r.err]
    /\ ClientFrame

\* The playlist URI given is one parsePlaylistURI accepts.
CallRemovePlaylistTracks ==
    /\ client.op = "none"
    /\ LET r == RemoveTracks(client.ids, client.reqErr)
       IN  client' = [client EXCEPT !.op = "RemovePlaylistTracks",
                                    !.requests = r.requests, !.err = r.err]
    /\ ClientFrame

-----------------------------------------------------------------------------
\* Initial states and specifications

\* mainFlagsParse: the library is synchronized when no other source is given.
Args ==
    {a \in [argLibrary : BOOLEAN, argAlbums : BOOLEAN, argPlaylists : BOOLEAN,
            argTracksFix : {<<>>} \cup {<<k>> : k \in TrackIds},
            argFlushCache : BOOLEAN, argFlushLocal : BOOLEAN, argFlushMetadata : BOOLEAN,
            argSimulate : BOOLEAN, argDebug : BOOLEAN, argInput : BOOLEAN,
            argDisableNormalization : BOOLEAN] :
        (~a.argAlbums /\ ~a.argPlaylists /\ a.argTracksFix = <<>>) => a.argLibrary}

\* track.Index(argFolder): the scan records, for an id found in a file's tags,
\* that file; the file of a track renamed remotely still has its old name.
Indexes(d) ==
    {f \in UNION {[ids -> d] : ids \in SUBSET TrackIds} :
        /\ \A k \in DOMAIN f : f[k] \in {<<"", k, ".mp3">>, <<"", 0, ".mp3">>}
        /\ \A j, k \in DOMAIN f : f[j] = f[k] => j = k}

InitRest ==
    /\ pc = "fetchLibrary"
    /\ tracks = <<>>
    /\ tracksIndex = {}
    /\ playlists = <<>>
    /\ tracksFailed = <<>>
    /\ todo = {}
    /\ cur = NoTrack
    /\ prov = 1
    /\ entry = NoEntry
    /\ task = <<>>
    /\ waitGroup = 0
    /\ pool = concurrencyLimit
    /\ poolClosed = FALSE
    /\ stagingFailed = {}
    /\ client = NoCall
    /\ ev = NoEv

\* The file named after track k, and the file that kept an old name.
TrackFile(k) == <<"", k, ".mp3">>
OldFile == <<"", 0, ".mp3">>

\* The index a scan of a fully synchronized folder d gives.
Consistent(d) == [k \in {j \in TrackIds : TrackFile(j) \in d} |-> TrackFile(k)]

\* Whole runs, with the cache flushed (every source is fetched live). A run
\* over the album alone (one track) takes any flags, folder and index. A run
\* over the playlist (tasks running concurrently) starts from an empty folder
\* (two tracks to acquire) or, with or without the album, from a fully
\* synchronized one (up to three tracks to flush). Normalization is asked to
\* be disabled in plain runs over the album only.
Init ==
    /\ args \in Args
    /\ ~args.argLibrary
    /\ args.argFlushCache
    /\ disk \in SUBSET FinalFiles
    /\ index \in Indexes(disk)
    /\ \/ /\ ~args.argPlaylists
          /\ args.argAlbums
          /\ args.argTracksFix \in {<<>>, <<MaxTracks>>}
          /\ disk \subseteq {OldFile, TrackFile(MaxTracks)}
          /\ args.argDisableNormalization =>
                 /\ args.argTracksFix = <<>>
                 /\ ~args.argSimulate /\ ~args.argInput /\ ~args.argDebug
       \/ /\ args.argPlaylists
          /\ args.argTracksFix = <<>>
          /\ ~args.argDisableNormalization
          /\ ~args.argSimulate /\ ~args.argInput /\ ~args.argFlushLocal
          /\ disk \in {{}, {TrackFile(k) : k \in TrackIds}}
          /\ disk = {} => ~args.argFlushMetadata /\ ~args.argAlbums
          /\ index = Consistent(disk)
    /\ usrIndex = NoIndexFile
    /\ InitRest

\* Runs of the planner (mainFetch) over every choice of sources and folder.
InitPlan ==
    /\ args \in Args
    /\ ~args.argSimulate /\ ~args.argInput /\ ~args.argDebug
    /\ ~args.argDisableNormalization
    /\ disk \in SUBSET {TrackFile(k) : k \in TrackIds}
    /\ index = Consistent(disk)
    /\ usrIndex = NoIndexFile
    /\ InitRest

NextPlan ==
    \/ mainFetchLibrary
    \/ mainFetchAlbums
    \/ mainFetchPlaylists
    \/ mainFetchTracksToFix
    \/ mainFetch

SpecPlan == InitPlan /\ [][NextPlan]_vars

\* track.Index(argFolder) at the start of a later run: a scan of the folder as
\* it is now. A file the index file records for an id and that is still in
\* the folder carries that id in its tags, and the scan records it again.
Scans(d, file) ==
    {f \in Indexes(d) :
        \A k \in DOMAIN file.idx :
            file.idx[k] \in d => k \in DOMAIN f /\ f[k] = file.idx[k]}

\* system.FetchGob(usrIndex, index), guarded by system.FileExists(usrIndex):
\* the index decoded from the file, nothing when the file is missing or does
\* not decode (the error is not looked at).
FetchIndex(file) == IF file.state = "ok" THEN file.idx ELSE <<>>

\* mainInit of the next run in the same folder with the same flags: the index
\* file is read when it exists, then index is assigned the scan of the folder.
mainInit ==
    /\ pc \in {"done", "exit"}
    /\ \E scan \in Scans(disk, usrIndex) :
           /\ index' = scan
           /\ ev' = [NoEv EXCEPT !.op = "init", !.loaded = FetchIndex(usrIndex)]
    /\ pc' = "fetchLibrary"
    /\ tracks' = <<>>
    /\ tracksIndex' = {}
    /\ playlists' = <<>>
    /\ tracksFailed' = <<>>
    /\ todo' = {}
    /\ cur' = NoTrack
    /\ prov' = 1
    /\ entry' = NoEntry
    /\ task' = <<>>
    /\ waitGroup' = 0
    /\ pool' = concurrencyLimit
    /\ poolClosed' = FALSE
    /\ stagingFailed' = {}
    /\ UNCHANGED <<args, disk, usrIndex, client>>

\* The steps of the main goroutine.
MainStep ==
    \/ mainFetchLibrary
    \/ mainFetchAlbums
    \/ mainFetchPlaylists
    \/ mainFetchTracksToFix
    \/ mainFetch
    \/ \E t \in todo : IterBegin(t)
    \/ Query
    \/ Download
    \/ Dispatch
    \/ DebugWait
    \/ Barrier
    \/ flushPlaylists
    \/ indexSync
    \/ ClosePool
    \/ Report

\* The steps of the songProcess goroutines.
TaskStep ==
    \/ \E t \in DOMAIN task : Acquire(t)
    \/ \E t \in DOMAIN task : Process(t)
    \/ \E t \in DOMAIN task : Release(t)
    \/ \E t \in DOMAIN task : Done(t)

Next == MainStep \/ TaskStep \/ Interrupt

Spec == Init /\ [][Next]_vars

\* Runs without an interrupt in which every call returns: the main goroutine
\* takes its next step when it can, and so does some runnable task.
NextLive == MainStep \/ TaskStep

\* The runs over the playlist, in which tasks run concurrently.
InitLive == Init /\ args.argPlaylists

SpecLive == InitLive /\ [][NextLive]_vars /\ WF_vars(MainStep) /\ WF_vars(TaskStep)

\* Successive runs over the album in one folder, the first one finding the
\* index file absent or unreadable.
InitRuns ==
    /\ args \in Args
    /\ ~args.argLibrary /\ ~args.argPlaylists /\ args.argAlbums
    /\ args.argTracksFix = <<>>
    /\ args.argFlushCache
    /\ ~args.argDisableNormalization
    /\ disk \in SUBSET {OldFile, TrackFile(MaxTracks)}
    /\ index \in Indexes(disk)
    /\ usrIndex \in {NoIndexFile, BadIndexFile}
    /\ InitRest

NextRuns == MainStep \/ TaskStep \/ mainInit

SpecRuns == InitRuns /\ [][NextRuns]_vars

\* Calls of the client's list operations on every input, outside a run.
InitClient ==
    /\ args = [argLibrary |-> TRUE, argAlbums |-> FALSE, argPlaylists |-> FALSE,
               argTracksFix |-> <<>>, argFlushCache |-> FALSE, argFlushLocal |-> FALSE,
               argFlushMetadata |-> FALSE, argSimulate |-> FALSE, argDebug |-> FALSE,
               argInput |-> FALSE, argDisableNormalization |-> FALSE]
    /\ pc = "exit"
    /\ tracks = <<>>
    /\ tracksIndex = {}
    /\ playlists = <<>>
    /\ disk = {}
    /\ index = <<>>
    /\ tracksFailed = <<>>
    /\ todo = {}
    /\ cur = NoTrack
    /\ prov = 1
    /\ entry = NoEntry
    /\ task = <<>>
    /\ waitGroup = 0
    /\ pool = 0
    /\ poolClosed = FALSE
    /\ usrIndex = NoIndexFile
    /\ stagingFailed = {}
    /\ ev = NoEv
    /\ \E ids \in IdLists, reqErr \in SUBSET Iterations, idErr \in SUBSET FailingIds :
           client = [NoCall EXCEPT !.ids = ids, !.reqErr = reqErr, !.idErr = idErr]

NextClient ==
    \/ CallAlbums
    \/ CallRemoveLibraryTracks
    \/ CallRemovePlaylistTracks

SpecClient == InitClient /\ [][NextClient]_vars

-----------------------------------------------------------------------------
\* Properties

\* The tasks between their receive from waitGroupPool and their deferred send.
Active == {t \in DOMAIN task : task[t] \in {"active", "processed", "failed"}}

\* The tasks launched (go songProcess) and not yet through wg.Done().
Outstanding == {t \in DOMAIN task : task[t] \notin {"none", "done"}}

\* C1: at every instant, at most concurrencyLimit post-processing tasks are in
\* their active section (permit taken, not yet given back), however many have
\* been queued.
C1_BoundedActive == Cardinality(Active) <= concurrencyLimit

\* The limit is reached while a further task is queued for a permit.
C1_Witness ==
    /\ Cardinality(Active) = concurrencyLimit
    /\ pool = 0
    /\ \E t \in DOMAIN task : task[t] = "queued"

\* C2: in a run that is not interrupted, playlist export, index.Sync, the
\* failure report and the termination prompt happen only once every
\* dispatched task is over (waitGroup is zero).
C2_FinalizeAfterTasks ==
    pc \in {"export", "sync", "close", "report", "done"}
        => (Outstanding = {} /\ waitGroup = 0)

\* The run is complete and several tasks were dispatched, all of them over.
C2_Witness ==
    /\ pc = "done"
    /\ Cardinality({t \in DOMAIN task : task[t] = "done"}) >= 2
    /\ ev.op = "report"


\* The steps of mainFetch that ingest tracks.
Ingesting == pc \in {"fetchLibrary", "fetchAlbums", "fetchPlaylists", "fetchFix"}

\* C3: the working set holds exactly one entry per distinct temporary filename
\* of the tracks ingested: no two entries share a key, tracksIndex is the set of
\* the entries' keys, every track of a source just ingested is represented, and
\* ingesting a track whose key is already there changes nothing (the entries
\* present keep their object and their options).
C3_OneEntryPerKey ==
    /\ [](/\ \A t, u \in DOMAIN tracks : FilenameTemporary(t) = FilenameTemporary(u) => t = u
          /\ tracksIndex = {FilenameTemporary(t) : t \in DOMAIN tracks}
          /\ (ev.op = "fetch" /\ pc # "exit")
                => \A i \in DOMAIN RemoteTracks(ev.src) :
                       <<".", RemoteTracks(ev.src)[i], ".mp3">> \in tracksIndex)
    /\ [][(Ingesting /\ pc' # "exit")
            => \A t \in DOMAIN tracks : t \in DOMAIN tracks' /\ tracks'[t] = tracks[t]]_vars

\* The playlist is ingested after the library that already holds its tracks:
\* the entries are the library's, one per track.
C3_Witness ==
    /\ ev.op = "fetch" /\ ev.src = "playlist" /\ pc = "fetchFix"
    /\ args.argLibrary
    /\ Cardinality(DOMAIN tracks) = MaxTracks
    /\ \A t \in DOMAIN tracks : t.from = "library"

\* The providers that accepted a candidate in the chain just run.
Accepting == {p \in DOMAIN ev.found : ev.found[p] > 0}

\* The provider chain has just run for a track, every provider's answer known.
ChainDone ==
    /\ pc = "download" /\ ev.op = "query" /\ ev.track = cur
    /\ DOMAIN ev.found = 1..NumProviders
    /\ ~args.argInput

\* C4: the entry chosen for a track is the first accepted candidate, in the
\* provider's own ranking, of the highest-priority provider that accepted one;
\* a lower-priority provider's candidate is used only when every
\* higher-priority provider failed or accepted nothing.
C4_HighestPriorityEntry ==
    ChainDone =>
        IF Accepting = {} THEN Empty(entry)
        ELSE LET p == CHOOSE q \in Accepting : \A r \in Accepting : q <= r
             IN  entry.prov = p /\ entry.rank = ev.found[p]

\* C5: once a track's iteration is through its download step, the track is in
\* tracksFailed exactly when no provider accepted a candidate for it or the
\* download of the chosen entry failed; in particular a track rejected by one
\* provider and accepted by the next is not in the list, and a track for which
\* every provider failed is.
C5_FailureListExact ==
    ev.op = "download" =>
        ((\E i \in DOMAIN tracksFailed : tracksFailed[i] = ev.track)
            <=> (Empty(ev.entry) \/ (ev.download /\ ~ev.downloadOk)))

\* The entries of the working set allocated by the fetch of source s.
EntriesOf(s) == {t \in DOMAIN tracks : t.from = s}

\* C6: a source's cached dump is trusted for cacheDuration. After the fetch of
\* a source: a readable dump younger than cacheDuration was ingested and no
\* live fetch was made; a dump older than cacheDuration was not ingested; and
\* a dump that is missing, unreadable or expired made the planner fetch live,
\* without ending the run (only a failing live fetch does).
C6_CacheTTL ==
    ev.op = "fetch" =>
        /\ (ev.dump.state = "ok" /\ ev.age2 < cacheDuration)
              => /\ ev.cached /\ ~ev.live /\ pc # "exit"
                 /\ \A t \in EntriesOf(ev.src) : t.via = "dump"
        /\ (ev.dump.state = "ok" /\ ev.age2 > cacheDuration)
              => /\ ~ev.cached
                 /\ \A t \in EntriesOf(ev.src) : t.via # "dump"
        /\ (ev.dump.state # "ok" \/ ev.dump.age > cacheDuration)
              => /\ ev.live
                 /\ ev.liveOk => (pc # "exit" /\ \A t \in EntriesOf(ev.src) : t.via = "live")

\* The library came from a dump one minute younger than cacheDuration; the
\* album's dump is one minute older and the album was fetched live.
C6_Witness ==
    /\ ev.op = "fetch" /\ ev.src = "album" /\ pc # "exit"
    /\ ev.dump = Dump(cacheDuration + 1) /\ ev.live
    /\ \E t \in EntriesOf("library") : t.via = "dump"

\* The iteration of ev.track has just renamed the file the index recorded for
\* the track's id to the track's current filename.
Renamed == ev.op = "begin" /\ ev.renameTried /\ ev.renameOk

\* What a rename leaves: the file under its new name, the index matching it.
RenameDone ==
    /\ Filename(ev.track) \in disk
    /\ ev.path \notin disk
    /\ Match(index, ev.track.id, Filename(ev.track)) =
           [path |-> Filename(ev.track), match |-> TRUE, err |-> FALSE]

C8_RenameFailure ==
    ev.op = "begin" =>
        /\ (ev.renameTried /\ ~ev.renameOk)
              => /\ Match(index, ev.track.id, Filename(ev.track)) =
                       [path |-> ev.path, match |-> FALSE, err |-> FALSE]
                 /\ tracks[ev.track].Source = ev.source0
                 /\ pc \in {"search", "process"} /\ cur = ev.track
        /\ ~ev.renameOk
              => Match(index, ev.track.id, Filename(ev.track)) =
                    [path |-> ev.path, match |-> ev.match, err |-> ev.matchErr]

\* A rename that failed although the recorded file is there.
C8_Witness ==
    /\ ev.op = "begin" /\ ev.renameTried /\ ~ev.renameOk
    /\ ev.path \in disk
    /\ ev.source0 /\ tracks[ev.track].Source
    /\ pc = "search"

AllFalse == [Source |-> FALSE, Metadata |-> FALSE, Normalization |-> FALSE]

NoFlush == ~args.argFlushLocal /\ ~args.argFlushMetadata

LibraryOnly ==
    args.argLibrary /\ ~args.argAlbums /\ ~args.argPlaylists /\ args.argTracksFix = <<>>

\* C9: a track ingested from a source gets Source = Metadata = FALSE when its
\* file is in the folder and Source = Metadata = TRUE when it is not (before
\* the override pass). With no flush flag, the plan of a library of MaxTracks
\* tracks has MaxTracks entries: the local ones with every flag FALSE, the
\* others with Source TRUE.
C9_IngestDefaults ==
    /\ (Ingesting \/ pc = "override")
          => \A t \in DOMAIN tracks :
                 t.from # "fix" =>
                     IF Local(t) THEN ~tracks[t].Source /\ ~tracks[t].Metadata
                     ELSE tracks[t].Source /\ tracks[t].Metadata
    /\ (pc = "loop" /\ LibraryOnly /\ NoFlush)
          => /\ Cardinality(DOMAIN tracks) = MaxTracks
             /\ \A t \in DOMAIN tracks :
                    IF Local(t) THEN tracks[t] = AllFalse ELSE tracks[t].Source

\* The plan of the library with one track in the folder: one entry per track,
\* one of them with every flag FALSE, the others to download.
C9_Witness ==
    /\ pc = "loop" /\ LibraryOnly /\ NoFlush
    /\ Cardinality(DOMAIN tracks) = MaxTracks
    /\ Cardinality({t \in DOMAIN tracks : Local(t) /\ tracks[t] = AllFalse}) = 1
    /\ Cardinality({t \in DOMAIN tracks : ~Local(t) /\ tracks[t].Source}) = MaxTracks - 1

\* The planner is through and the run goes on.
Running ==
    pc \in {"loop", "search", "download", "process", "debugWait", "export", "sync",
            "close", "report", "done"}

\* Every track of the plan is in the folder with every flag FALSE.
NothingToDo == \A t \in DOMAIN tracks : Local(t) /\ tracks[t] = AllFalse

\* C10: when every planned track is in the folder and no flush flag is set,
\* the plan has every flag FALSE; and a run over such a plan, not simulating,
\* searches nothing, downloads nothing and dispatches no task.
C10_Idempotent ==
    /\ (pc = "loop" /\ ev.op = "override" /\ NoFlush /\ args.argTracksFix = <<>>
          /\ \A t \in DOMAIN tracks : Local(t))
          => \A t \in DOMAIN tracks : tracks[t] = AllFalse
    /\ (Running /\ ~args.argSimulate /\ NothingToDo)
          => /\ pc \notin {"search", "download", "debugWait"}
             /\ \A t \in DOMAIN task : task[t] = "none"
             /\ waitGroup = 0
             /\ tracksFailed = <<>>
             /\ disk \cap TempFiles = {}

\* The run over a synchronized folder is complete: several tracks, nothing done.
C10_Witness ==
    /\ pc = "done" /\ ~args.argSimulate /\ NoFlush /\ NothingToDo
    /\ Cardinality(DOMAIN tracks) >= 2
    /\ \A t \in DOMAIN task : task[t] = "none"

\* C11: the override pass is one step that follows the ingestion of every
\* source. After it, argFlushLocal gives every entry Source = TRUE and
\* argFlushMetadata gives every entry Metadata = TRUE; the pass adds and drops
\* no entry; argFlushMetadata alone changes no entry's Source; with neither
\* flag it changes no entry; and no step before it applies the flags.
C11_OverridePass ==
    /\ [](pc = "loop" /\ ev.op = "override"
            => \A t \in DOMAIN tracks :
                   /\ args.argFlushLocal => tracks[t].Source
                   /\ args.argFlushMetadata => tracks[t].Metadata)
    /\ [][pc = "override"
            => /\ DOMAIN tracks' = DOMAIN tracks \/ pc' = "exit"
               /\ (pc' = "loop" /\ ~args.argFlushLocal)
                     => \A t \in DOMAIN tracks : tracks'[t].Source = tracks[t].Source
               /\ (pc' = "loop" /\ NoFlush) => tracks' = tracks]_vars
    /\ [](Ingesting => \A t \in DOMAIN tracks :
                           (t.from # "fix" /\ Local(t)) => tracks[t] = AllFalse)

\* argFlushMetadata alone, over a plan with a local track and an absent one:
\* every entry has Metadata set, the local one still has Source clear.
C11_Witness ==
    /\ pc = "loop" /\ ev.op = "override"
    /\ args.argFlushMetadata /\ ~args.argFlushLocal
    /\ \E t \in DOMAIN tracks : Local(t) /\ ~tracks[t].Source /\ tracks[t].Metadata
    /\ \E t \in DOMAIN tracks : ~Local(t) /\ tracks[t].Source

\* The files given with the fix option that track.OpenLocalTrack opens.
FixOpened ==
    {args.argTracksFix[i] : i \in {j \in DOMAIN args.argTracksFix :
                                       TrackFile(args.argTracksFix[j]) \in disk}}

\* C12: once the sources are ingested (before the override pass, and after it
\* when no flush flag is set), every file given with the fix option and
\* opened has an entry in the working set with Metadata = TRUE and
\* Source = FALSE, whatever was ingested before it.
C12_FixMetadataOnly ==
    (pc = "override" \/ (pc = "loop" /\ ev.op = "override" /\ NoFlush))
        => \A n \in FixOpened :
               \E t \in DOMAIN tracks :
                   /\ FilenameTemporary(t) = <<".", n, ".mp3">>
                   /\ tracks[t].Metadata /\ ~tracks[t].Source

\* The barrier at the end of the loop is passed.
BarrierPassed == pc \in {"export", "sync", "close", "report", "done"}

\* C13: while the process lives, the free permits and the tasks holding one
\* add up to concurrencyLimit (a task that took a permit gives it back once,
\* whether its body ended at the staging failure, at a finalize failure or
\* normally); a task signals the barrier only after it gave its permit back;
\* and once the barrier is passed the pool holds every permit again.
C13_PermitsConserved ==
    /\ [](Alive => pool + Cardinality(Active) = concurrencyLimit)
    /\ [](BarrierPassed => pool = concurrencyLimit)
    /\ [][\A t \in DOMAIN task :
             (pc' # "exit" /\ task[t] # "done" /\ task'[t] = "done")
                 => (task[t] = "released" /\ waitGroup' = waitGroup - 1 /\ pool' = pool)]_vars

\* A task stopped at the staging failure still holds its permit while another
\* task has just failed to finalize; the permits are all accounted for.
C13_Witness ==
    /\ \E t \in DOMAIN task : task[t] = "failed"
    /\ ev.op = "process" /\ ev.stageErr = {"finalize"}
    /\ pool = 0 /\ Cardinality(Active) = concurrencyLimit

\* C14: with no interrupt and every call returning, a run whose plan is made
\* goes through its loop, every task it dispatched takes a permit and ends,
\* the barrier is passed and the final report is reached, also when the
\* tasks outnumber the permits.
C14_Termination ==
    /\ (pc = "loop") ~> (pc = "done" /\ Outstanding = {} /\ waitGroup = 0)
    /\ (\E t \in DOMAIN task : task[t] = "queued") ~> BarrierPassed

\* More tasks than permits: one waits for a permit while the others hold them.
C14_Witness ==
    /\ Cardinality(DOMAIN task) > concurrencyLimit
    /\ Cardinality(Active) = concurrencyLimit
    /\ \E t \in DOMAIN task : task[t] = "queued"
    /\ pc = "loop" /\ todo = {}

\* The provider chain has just accepted, from its highest-priority accepting
\* provider, a candidate whose URL is the origin URL of the local file of a
\* track flagged Source.
AlreadyOptimal ==
    /\ ChainDone /\ Accepting # {}
    /\ tracks[cur].Source /\ Local(cur)
    /\ LET p == CHOOSE q \in Accepting : \A r \in Accepting : q <= r
       IN  ev.same[p]

\* C15: when the candidate accepted for a track flagged Source has the URL the
\* local file was downloaded from, the step that follows the chain invokes no
\* download, leaves the folder as it is and goes on to the next track without
\* dispatching a task for this one.
C15_AlreadyOptimal ==
    [][(AlreadyOptimal /\ ev'.op = "download")
          => (~ev'.download /\ disk' = disk /\ pc' = "loop" /\ task' = task)]_vars

\* The fixed order of the stages.
StageOrder == <<"staging", "normalize", "flush", "finalize">>

StageRank(x) == CHOOSE i \in DOMAIN StageOrder : StageOrder[i] = x

Ran(x) == \E i \in DOMAIN ev.stages : ev.stages[i] = x

\* C16: a task runs its stages in the order staging, normalize, flush,
\* finalize; normalize runs iff the track's Normalization is set and flush iff
\* its Metadata is set; an error in either does not keep finalize from being
\* attempted; and when the staging fails nothing else runs and the final file
\* is as it was.
C16_StageOrder ==
    /\ [](ev.op = "process"
            => /\ ev.stages # <<>> /\ ev.stages[1] = "staging"
               /\ \A i, j \in DOMAIN ev.stages :
                      i < j => StageRank(ev.stages[i]) < StageRank(ev.stages[j])
               /\ IF "staging" \in ev.stageErr
                  THEN ev.stages = <<"staging">>
                  ELSE /\ Ran("normalize") <=> tracks[ev.track].Normalization
                       /\ Ran("flush") <=> tracks[ev.track].Metadata
                       /\ Ran("finalize"))
    /\ [][(ev'.op = "process" /\ "staging" \in ev'.stageErr)
            => (Filename(ev'.track) \in disk' <=> Filename(ev'.track) \in disk)]_vars

\* A task whose volume measurement and tag flush both failed and whose file
\* was nevertheless moved to its final path.
C16_Witness ==
    /\ ev.op = "process"
    /\ ev.stages = StageOrder
    /\ ev.stageErr = {"normalize", "flush"}
    /\ Filename(ev.track) \in disk /\ FilenameTemporary(ev.track) \notin disk

\* The tracks on the failure list.
Reported == {tracksFailed[i] : i \in DOMAIN tracksFailed}

\* C17: at the final report the failure list holds every track whose
\* post-processing task ended at the staging failure.
C17_FailuresReported ==
    pc \in {"report", "done"} => stagingFailed \subseteq Reported

\* The loop is evaluating a track or about to take the next one.
Evaluating == pc \in {"loop", "search", "download", "process"}

\* C18: in debug mode at most one post-processing task is outstanding at any
\* time, and none is while the loop evaluates a track (rename check, search,
\* download) or is about to take the next one.
C18_DebugSequential ==
    args.argDebug =>
        /\ Cardinality(Outstanding) <= 1
        /\ Evaluating => Outstanding = {}

\* A debug run has started the evaluation of a track after the task it
\* dispatched for an earlier track completed.
C18_Witness ==
    /\ args.argDebug
    /\ ev.op = "begin"
    /\ \E t \in DOMAIN task : task[t] = "done"

\* The step is one of a songProcess goroutine.
TaskStepTaken == ev'.op \in {"task", "process"}

\* The tracks whose songProcess goroutine has been started.
Dispatched == {t \in DOMAIN task : task[t] # "none"}

\* C19: a step of a post-processing task writes neither the working set, the
\* dedup index, the failure list, the artwork cache nor a track's fields; and
\* once a track's task has been started no step of the run writes that
\* track's options or fields (origin URL, lyrics, artwork).
C19_NoSharedWrites ==
    [][/\ TaskStepTaken =>
            /\ tracks' = tracks
            /\ tracksIndex' = tracksIndex
            /\ tracksFailed' = tracksFailed
            /\ ev'.writes = {}
       /\ \A t \in Dispatched :
            pc' # "exit" =>
                /\ t \in DOMAIN tracks' /\ tracks'[t] = tracks[t]
                /\ \A w \in ev'.writes : w[2] # t]_vars

\* The loop has just written the fields of a track and started its task while
\* the task of another track is in its active section, one that has been
\* through the staging-failure return.
C19_Witness ==
    /\ ev.op = "dispatch"
    /\ ev.dispatched
    /\ ev.writes # {}
    /\ \E t \in Active : t # ev.track /\ task[t] = "failed"

\* C20 (persistence): the index a run starts with holds every entry the index
\* file holds, as the previous run wrote them.
C20_IndexRestored ==
    (ev.op = "init" /\ usrIndex.state = "ok") =>
        \A k \in DOMAIN usrIndex.idx :
            k \in DOMAIN index /\ index[k] = usrIndex.idx[k]

\* C21: with the simulate flag set no step of the run alters the folder: the
\* loop renames no file and invokes no download, and no post-processing task
\* runs a stage on a file.
C21_SimulateFrame ==
    [][(args.argSimulate /\ ev'.op # "interrupt")
          => /\ disk' = disk
             /\ ~(ev'.op = "begin" /\ ev'.renameTried)
             /\ ~(ev'.op = "download" /\ ev'.download)
             /\ ev'.op # "process"]_vars

\* C22: with the disable-normalization flag set no working-set entry requests
\* normalization and no post-processing task runs the normalization stage.
C22_NormalizationDisabled ==
    args.argDisableNormalization =>
        /\ \A t \in DOMAIN tracks : ~tracks[t].Normalization
        /\ ev.op = "process" => \A i \in DOMAIN ev.stages : ev.stages[i] # "normalize"

\* What Albums is to return for position i of its input: the album of the id,
\* or the placeholder when the id's batch failed and its single fetch too.
AlbumFor(i) ==
    IF ((i - 1) \div albumsChunk) \in client.reqErr /\ client.ids[i] \in client.idErr
    THEN NoAlbum
    ELSE client.ids[i]

\* C23: Albums returns one album per input id, in the input order, whatever
\* the length of the list; the ids of a failed batch contribute the album of
\* their single fetch or the placeholder, and later batches are processed.
C23_AlbumsSpecular ==
    client.op = "Albums" =>
        /\ Len(client.albums) = Len(client.ids)
        /\ \A i \in DOMAIN client.ids : client.albums[i] = AlbumFor(i)

\* C24: the iteration of a track that has its local file and has Metadata set
\* does not end after the search without going on to the dispatch of its
\* post-processing task, whatever the search found.
C24_FlushDispatched ==
    [][(ev'.op = "download" /\ Local(cur) /\ tracks[cur].Metadata)
          => pc' = "process"]_vars

\* C25: the failure list holds no track twice, so it is never longer than the
\* working set and the count reported as synced, len(tracks) minus
\* len(tracksFailed), is the number of working-set tracks not on the list.
C25_FailuresOnce ==
    /\ \A i, j \in DOMAIN tracksFailed : tracksFailed[i] = tracksFailed[j] => i = j
    /\ Len(tracksFailed) <= Cardinality(DOMAIN tracks)
    /\ Cardinality(DOMAIN tracks) - Len(tracksFailed)
           = Cardinality(DOMAIN tracks \ Reported)

\* C26: after the fetch of a source whose dump had the same age at both clock
\* reads, fetchDump returned the dump without an error exactly when the fetch
\* routine ingested the dump and made no live fetch, whatever that age.
C26_CacheChecksAgree ==
    (ev.op = "fetch" /\ ev.age2 = ev.dump.age) =>
        (~fetchDump(ev.dump).err <=> (ev.cached /\ ~ev.live))

\* The ids of the requests, in request order.
RECURSIVE Concat(_)
Concat(reqs) == IF reqs = <<>> THEN <<>> ELSE Head(reqs) \o Concat(Tail(reqs))

\* ceil(n / removeChunk)
RequestsFor(n) == (n + removeChunk - 1) \div removeChunk

\* The requests of a removal that the API fails, among those the list needs.
FailedRequests == {i \in client.reqErr : i < RequestsFor(Len(client.ids))}

\* C27: a removal of n ids issues ceil(n/50) requests of 1 to 50 ids each
\* whose concatenation is the input list, none for an empty list and none
\* with an empty id list; a failing request is the last one issued and makes
\* the call return an error.
C27_RemovalRequests ==
    client.op \in {"RemoveLibraryTracks", "RemovePlaylistTracks"} =>
        /\ \A i \in DOMAIN client.requests :
               Len(client.requests[i]) \in 1..removeChunk
        /\ client.err <=> FailedRequests # {}
        /\ ~client.err =>
               /\ Len(client.requests) = RequestsFor(Len(client.ids))
               /\ Concat(client.requests) = client.ids
        /\ client.err =>
               \E i \in FailedRequests :
                   /\ \A j \in FailedRequests : i <= j
                   /\ Len(client.requests) = i + 1

====
